---- MODULE Spec2Model ----
(***************************************************************************)
(* Model of the contract analyzer's core: the chunker                      *)
(* (chunking/chunker.py), the vector store and the two retrievers           *)
(* (vector_store/faiss_store.py, rag/retriever.py, chatbot/chat.py) and the *)
(* compliance scorer (compliance_engine/analyzer.py).                       *)
(*                                                                          *)
(* Text is a sequence of tokens.  A token is one character ("a", " ",       *)
(* "\n") or the five-character heading literal "sec 1", which HEADING_RE    *)
(* recognises when it stands at the start of a line.  All lengths and       *)
(* offsets are counted in characters, as len() does in the source.  The     *)
(* ingestion pipeline, whose thresholds are 200, 400 and 3000 characters,   *)
(* is exercised on texts built from runs of 100 and of 1000 non-blank       *)
(* characters ("w100", "w1000"), blanks, newlines and hyphens.              *)
(***************************************************************************)
EXTENDS Integers, Sequences, FiniteSets, TLC

\* ------------------------------------------------------------------ bounds
MaxTokens == 6          \* longest input text, in tokens

\* ------------------------------------------------------------------ text
A  == "a"
SP == " "
NL == "\n"
CR == "\r"
HD == "sec 1"

W100  == "w100"     \* a run of 100 characters, none of them blank or "-"
W1000 == "w1000"    \* a run of 1000 such characters
HYPH  == "-"

Tokens == {A, SP, NL, HD}

TokLen(t) == CASE t = HD    -> 5
               [] t = W100  -> 100
               [] t = W1000 -> 1000
               [] OTHER     -> 1

IsSpace(t) == t \in {SP, NL, CR}

RECURSIVE CharLen(_)
CharLen(s) == IF s = <<>> THEN 0 ELSE TokLen(Head(s)) + CharLen(Tail(s))

\* str.replace("\r", "\n")
ReplaceCR(s) == [i \in 1..Len(s) |-> IF s[i] = CR THEN NL ELSE s[i]]

RECURSIVE LStrip(_)
LStrip(s) == IF s # <<>> /\ IsSpace(Head(s)) THEN LStrip(Tail(s)) ELSE s

RECURSIVE RStrip(_)
RStrip(s) ==
    IF s # <<>> /\ IsSpace(s[Len(s)]) THEN RStrip(SubSeq(s, 1, Len(s) - 1)) ELSE s

\* str.strip()
Strip(s) == RStrip(LStrip(s))

\* 0-based character offset of the token at (1-based) index i
\* faulty variant: every offset is reported as 0
Off_zero(s, i) == 0

Off(s, i) == CharLen(SubSeq(s, 1, i - 1))

Texts == UNION {[1..n -> Tokens] : n \in 0..MaxTokens}

\* --------------------------------------------------------- HEADING_RE
\* (?im)^(?P<h>...)\s*.*$ : the heading literal at the start of a line.
HeadingAt(s, i) == /\ i \in 1..Len(s)
                   /\ s[i] = HD
                   /\ (i = 1 \/ s[i - 1] = NL)

RECURSIVE SkipSpace(_, _)
SkipSpace(s, j) == IF j <= Len(s) /\ IsSpace(s[j]) THEN SkipSpace(s, j + 1) ELSE j

RECURSIVE SkipLine(_, _)
SkipLine(s, j) == IF j <= Len(s) /\ s[j] # NL THEN SkipLine(s, j + 1) ELSE j

\* index just past a match that starts at i: the heading, then greedy \s*
\* (which crosses newlines), then .* up to the end of that line
MatchEnd(s, i) == SkipLine(s, SkipSpace(s, i + 1))

\* HEADING_RE.finditer(text): start indices of the non-overlapping matches
RECURSIVE FindHeadings(_, _)
FindHeadings(s, from) ==
    IF from > Len(s) THEN <<>>
    ELSE IF HeadingAt(s, from)
         THEN <<from>> \o FindHeadings(s, MatchEnd(s, from))
         ELSE FindHeadings(s, from + 1)

NoHeading == "None"

\* faulty variant: the text before the first heading is kept in the first block
split_into_section_blocks_keep_prefix(text0) ==
    LET text    == Strip(ReplaceCR(text0))
        matches == FindHeadings(text, 1)
        n       == Len(matches)
        EndIx(i) == IF i + 1 <= n THEN matches[i + 1] ELSE Len(text) + 1
        StartIx(i) == IF i = 1 THEN 1 ELSE matches[i]
    IN  IF text = <<>> THEN <<>>
        ELSE IF n = 0
             THEN << [heading |-> NoHeading, text |-> text,
                      start |-> 0, end |-> CharLen(text)] >>
             ELSE [i \in 1..n |->
                     [heading |-> HD,
                      text    |-> Strip(SubSeq(text, StartIx(i), EndIx(i) - 1)),
                      start   |-> Off(text, StartIx(i)),
                      end     |-> Off(text, EndIx(i))]]

split_into_section_blocks(text0) ==
    LET text    == Strip(ReplaceCR(text0))
        matches == FindHeadings(text, 1)
        n       == Len(matches)
        EndIx(i) == IF i + 1 <= n THEN matches[i + 1] ELSE Len(text) + 1
    IN  IF text = <<>> THEN <<>>
        ELSE IF n = 0
             THEN << [heading |-> NoHeading, text |-> text,
                      start |-> 0, end |-> CharLen(text)] >>
             ELSE [i \in 1..n |->
                     [heading |-> HD,
                      text    |-> Strip(SubSeq(text, matches[i], EndIx(i) - 1)),
                      start   |-> Off(text, matches[i]),
                      end     |-> Off(text, EndIx(i))]]

\* --------------------------------------------------------- _para_split
\* index of the last "\n" in the whitespace run that starts at i
RECURSIVE LastNLInRun(_, _, _)
LastNLInRun(s, j, last) ==
    IF j <= Len(s) /\ IsSpace(s[j])
    THEN LastNLInRun(s, j + 1, IF s[j] = NL THEN j ELSE last)
    ELSE last

\* r"\n\s*\n+" matches at i: a newline whose whitespace run holds another one
SepAt(s, i) == /\ i \in 1..Len(s)
               /\ s[i] = NL
               /\ LastNLInRun(s, i + 1, 0) > i

\* re.split(r"\n\s*\n+", text), scanning from index `from`; `lo` is where the
\* part under construction began
RECURSIVE ReSplit(_, _, _)
ReSplit(s, lo, from) ==
    IF from > Len(s) THEN << SubSeq(s, lo, Len(s)) >>
    ELSE IF SepAt(s, from)
         THEN LET e == LastNLInRun(s, from + 1, 0)
              IN  << SubSeq(s, lo, from - 1) >> \o ReSplit(s, e + 1, e + 1)
         ELSE ReSplit(s, lo, from + 1)

RECURSIVE StripNonEmpty(_)
StripNonEmpty(parts) ==
    IF parts = <<>> THEN <<>>
    ELSE LET p == Strip(Head(parts))
         IN  (IF p = <<>> THEN <<>> ELSE <<p>>) \o StripNonEmpty(Tail(parts))

para_split(text0) ==
    LET text == ReplaceCR(text0)
    IN  StripNonEmpty(ReSplit(text, 1, 1))

\* "\n\n".join(buf)
RECURSIVE JoinParas(_)
JoinParas(b) ==
    IF b = <<>> THEN <<>>
    ELSE IF Len(b) = 1 THEN b[1]
    ELSE b[1] \o <<NL, NL>> \o JoinParas(Tail(b))

\* sum(len(x) + 2 for x in buf)
RECURSIVE SumLen2(_)
SumLen2(b) == IF b = <<>> THEN 0 ELSE CharLen(Head(b)) + 2 + SumLen2(Tail(b))

Max(x, y) == IF x >= y THEN x ELSE y
Min(x, y) == IF x <= y THEN x ELSE y

\* buf[-k:] for k > 0
LastK(b, k) == SubSeq(b, Max(1, Len(b) - k + 1), Len(b))

\* ================================================================ chunker
\* chunk_text(text, max_chars, overlap_chars (ignored), min_chars,
\*            overlap_paragraphs)
VARIABLES raw, max_chars, min_chars, overlap_paragraphs,
          blocks, bidx,            \* for block in blocks
          paras, pidx,             \* for p in paras
          buf, buf_len, buf_start_char, running,
          chunks, chunk_id,
          ck_pc,
          buf_ix,                  \* history: indices (in paras) of buf's items
          flushes                  \* history: one entry per non-empty flush

chunkerVars == <<raw, max_chars, min_chars, overlap_paragraphs, blocks, bidx,
                 paras, pidx, buf, buf_len, buf_start_char, running,
                 chunks, chunk_id, ck_pc, buf_ix, flushes>>

\* analyze_requirement(requirement_name, requirement_description, controls,
\*                     retrieved_clauses, model)
VARIABLES requirement_name, controls, retrieved_clauses,
          resp,                    \* text returned by the claim-generation call
          llm_calls,               \* client.chat.completions.create calls made
          total_controls, covered_controls, evidence_quotes,
          base_ratio,              \* base as assigned from coverage_ratio
          base,                    \* base after the adjustments, unclamped
          verdict, an_pc

scorerVars == <<requirement_name, controls, retrieved_clauses, resp, llm_calls,
                total_controls, covered_controls, evidence_quotes, base_ratio,
                base, verdict, an_pc>>

\* FaissVectorStore and the two retrievers
VARIABLES store,                   \* one entry per id: index row, text_by_id, meta_by_id
          rc_args, rc_hits, rc_result,      \* last retrieve_clauses call
          chat_args, chat_hits, chat_result \* last retrieve_for_chat call

retrieverVars == <<store, rc_args, rc_hits, rc_result,
                   chat_args, chat_hits, chat_result>>

\* find_section_label(text)
VARIABLES tag_text, tag_label, tag_pc

taggerVars == <<tag_text, tag_label, tag_pc>>

\* the index build of app.py on the chunks of one text; the store it fills and
\* the retrieval from it are the retriever's variables above
VARIABLES ix_text, ix_params, ix_chunks, ix_pc

indexVars == <<ix_text, ix_params, ix_chunks, ix_pc>>

\* app.py: st.session_state, which outlives a script run, and the locals of
\* the script run in progress
VARIABLES ss_store, ss_contract_hash, ss_contract_text, ss_results,
          ss_debug_retrieval, ss_chat_messages,
          app_pc,                  \* where the script run stands; "idle" between runs
          uploaded, contract_text, debug_mode,
          run_results,             \* the local list `results` of run_checks
          debug_retrieval,
          req_idx,                 \* position of the run_checks loop in the catalog
          run_failed,              \* history: requirement whose evaluation raised in this run
          run_evaluated,           \* history: requirements evaluated in this run
          run_reset                \* history: this run dropped a cached store

sessionVars == <<ss_store, ss_contract_hash, ss_contract_text, ss_results,
                 ss_debug_retrieval, ss_chat_messages>>

runVars == <<app_pc, uploaded, contract_text, debug_mode, run_results,
             debug_retrieval, req_idx, run_failed, run_evaluated, run_reset>>

appVars == <<sessionVars, runVars>>

vars == <<chunkerVars, scorerVars, retrieverVars, taggerVars, indexVars, appVars>>

nonChunkerVars   == <<scorerVars, retrieverVars, taggerVars, indexVars, appVars>>
nonScorerVars    == <<chunkerVars, retrieverVars, taggerVars, indexVars, appVars>>
nonRetrieverVars == <<chunkerVars, scorerVars, taggerVars, indexVars, appVars>>
nonTaggerVars    == <<chunkerVars, scorerVars, retrieverVars, indexVars, appVars>>
nonIndexVars     == <<chunkerVars, scorerVars, taggerVars, appVars>>
nonAppVars       == <<chunkerVars, scorerVars, retrieverVars, taggerVars, indexVars>>

\* values of a component's variables while another component is exercised
NoResponse == [kind |-> "none", status |-> "", confidence |-> 0,
               controls_is_list |-> FALSE, controls |-> <<>>]

NoVerdict == [requirement |-> "", status |-> "", confidence |-> 0 - 1,
              controls |-> <<>>]

ScorerIdle ==
    /\ requirement_name = "" /\ controls = <<>> /\ retrieved_clauses = <<>>
    /\ resp = NoResponse /\ llm_calls = 0
    /\ total_controls = 0 /\ covered_controls = 0 /\ evidence_quotes = 0
    /\ base_ratio = 0 /\ base = 0
    /\ verdict = NoVerdict /\ an_pc = "idle"

NoCall == [called |-> FALSE, q_emb |-> [dir |-> 0, len |-> 0], top_k |-> 0,
           min_score |-> 0, ntotal |-> 0]

RetrieverIdle ==
    /\ store = <<>>
    /\ rc_args = NoCall /\ rc_hits = <<>> /\ rc_result = <<>>
    /\ chat_args = NoCall /\ chat_hits = <<>> /\ chat_result = <<>>

NoLabel == [found |-> FALSE, label |-> <<>>]

TaggerIdle == tag_text = <<>> /\ tag_label = NoLabel /\ tag_pc = "idle"

\* session_state as the first script run initialises it: every key None, the
\* chat history empty
NoHash == 0 - 1

\* `doc` is history: the text a value was computed from
NoStore == [present |-> FALSE, rows |-> <<>>, doc |-> <<>>]

NoSessionText == [present |-> FALSE, text |-> <<>>]

NoResults == [present |-> FALSE, items |-> <<>>, doc |-> <<>>]

NoDebugRetrieval == [present |-> FALSE, keys |-> {}, doc |-> <<>>]

NoUpload == <<"None">>

SessionFresh ==
    /\ ss_store = NoStore
    /\ ss_contract_hash = NoHash
    /\ ss_contract_text = NoSessionText
    /\ ss_results = NoResults
    /\ ss_debug_retrieval = NoDebugRetrieval
    /\ ss_chat_messages = <<>>

RunFresh ==
    /\ uploaded = NoUpload /\ contract_text = <<>> /\ debug_mode = FALSE
    /\ run_results = <<>> /\ debug_retrieval = {} /\ req_idx = 0
    /\ run_failed = 0 /\ run_evaluated = {} /\ run_reset = FALSE

AppIdle == SessionFresh /\ RunFresh /\ app_pc = "off"

NoParams == [max_chars |-> 0, min_chars |-> 0, overlap_paragraphs |-> 0]

IndexIdle ==
    /\ ix_text = <<>> /\ ix_params = NoParams /\ ix_chunks = <<>> /\ ix_pc = "idle"

ChunkerIdle ==
    /\ raw = <<>> /\ max_chars = 0 /\ min_chars = 0 /\ overlap_paragraphs = 0
    /\ blocks = <<>> /\ bidx = 0
    /\ paras = <<>> /\ pidx = 0
    /\ buf = <<>> /\ buf_len = 0 /\ buf_start_char = 0 /\ running = 0
    /\ chunks = <<>> /\ chunk_id = 0
    /\ ck_pc = "idle"
    /\ buf_ix = <<>> /\ flushes = <<>>


MaxCharsVals == {5, 8}
MinCharsVals == {1, 4}
OverlapVals  == {0, 1}

\* faulty variant: the minimum-length test is dropped
EmitOK_always(out, minc) == TRUE

\* if len(out) >= min_chars
EmitOK(out, minc) == CharLen(out) >= minc

\* faulty variant: the id advances on every flush, also on a discarded buffer
NextChunkId_every_flush(cid, emitted) == cid + 1

\* chunk_id += 1 happens only inside the emitting branch
NextChunkId(cid, emitted) == IF emitted THEN cid + 1 ELSE cid

\* flush(buf_end_char), on the enclosing frame's chunks, chunk_id, buf, buf_len
flush(cs, cid, b, blen, heading, bstart, buf_end_char, minc) ==
    IF b = <<>>
    THEN [chunks |-> cs, chunk_id |-> cid, buf |-> b, buf_len |-> blen]
    ELSE LET out == Strip(JoinParas(b))
             ok  == EmitOK(out, minc)
         IN  [chunks   |-> IF ok
                           THEN Append(cs, [id |-> cid,
                                            text |-> out,
                                            section_heading |-> heading,
                                            start_char |-> Max(bstart, 0),
                                            end_char |-> Max(buf_end_char, 0)])
                           ELSE cs,
              chunk_id |-> NextChunkId(cid, ok),
              buf      |-> <<>>,
              buf_len  |-> 0]

\* history entry of a flush of the (non-empty) buffer
FlushEntry(cause) ==
    [ix |-> buf_ix, cause |-> cause, block |-> bidx,
     emitted |-> EmitOK(Strip(JoinParas(buf)), min_chars)]

InitChunker ==
    /\ raw \in Texts
    /\ max_chars \in MaxCharsVals
    /\ min_chars \in MinCharsVals
    /\ overlap_paragraphs \in OverlapVals
    /\ blocks = <<>> /\ bidx = 0
    /\ paras = <<>> /\ pidx = 0
    /\ buf = <<>> /\ buf_len = 0 /\ buf_start_char = 0 /\ running = 0
    /\ chunks = <<>> /\ chunk_id = 0
    /\ ck_pc = "call"
    /\ buf_ix = <<>> /\ flushes = <<>>
    /\ ScorerIdle
    /\ RetrieverIdle
    /\ TaggerIdle
    /\ IndexIdle
    /\ AppIdle

\* raw = text.replace("\r", "\n"); blocks = split_into_section_blocks(raw)
SplitBlocks ==
    /\ ck_pc = "call"
    /\ blocks' = split_into_section_blocks(ReplaceCR(raw))
    /\ bidx' = 1
    /\ chunks' = <<>> /\ chunk_id' = 0
    /\ ck_pc' = "block"
    /\ UNCHANGED nonChunkerVars
    /\ UNCHANGED <<raw, max_chars, min_chars, overlap_paragraphs, paras, pidx,
                   buf, buf_len, buf_start_char, running, buf_ix, flushes>>

\* top of the body of `for block in blocks`
BeginBlock ==
    /\ ck_pc = "block" /\ bidx <= Len(blocks)
    /\ paras' = para_split(blocks[bidx].text)
    /\ pidx' = 1
    /\ buf' = <<>> /\ buf_len' = 0
    /\ buf_start_char' = blocks[bidx].start
    /\ running' = blocks[bidx].start
    /\ buf_ix' = <<>>
    /\ ck_pc' = "para"
    /\ UNCHANGED nonChunkerVars
    /\ UNCHANGED <<raw, max_chars, min_chars, overlap_paragraphs, blocks, bidx,
                   chunks, chunk_id, flushes>>

\* if not buf: the paragraph opens a new buffer
ParaFirst ==
    /\ ck_pc = "para" /\ pidx <= Len(paras)
    /\ buf = <<>>
    /\ LET p == paras[pidx]
           p_len == CharLen(p) + 2
       IN  /\ buf' = <<p>>
           /\ buf_len' = p_len
           /\ buf_start_char' = running
           /\ running' = running + p_len
    /\ buf_ix' = <<pidx>>
    /\ pidx' = pidx + 1
    /\ UNCHANGED nonChunkerVars
    /\ UNCHANGED <<raw, max_chars, min_chars, overlap_paragraphs, blocks, bidx,
                   paras, chunks, chunk_id, ck_pc, flushes>>

\* elif buf_len + p_len <= max_chars: the paragraph joins the buffer
ParaAppend ==
    /\ ck_pc = "para" /\ pidx <= Len(paras)
    /\ buf # <<>>
    /\ LET p == paras[pidx]
           p_len == CharLen(p) + 2
       IN  /\ buf_len + p_len <= max_chars
           /\ buf' = Append(buf, p)
           /\ buf_len' = buf_len + p_len
           /\ running' = running + p_len
    /\ buf_ix' = Append(buf_ix, pidx)
    /\ pidx' = pidx + 1
    /\ UNCHANGED nonChunkerVars
    /\ UNCHANGED <<raw, max_chars, min_chars, overlap_paragraphs, blocks, bidx,
                   paras, buf_start_char, chunks, chunk_id, ck_pc, flushes>>

\* else: flush(running), then seed the next buffer.  flush rebinds the
\* enclosing buf to [] before `buf[-overlap_paragraphs:]` is evaluated, so
\* the overlap is taken from the buffer as flush left it.
ParaOverflow ==
    /\ ck_pc = "para" /\ pidx <= Len(paras)
    /\ buf # <<>>
    /\ LET p == paras[pidx]
           p_len == CharLen(p) + 2
           block_start == blocks[bidx].start
           f == flush(chunks, chunk_id, buf, buf_len, blocks[bidx].heading,
                      buf_start_char, running, min_chars)
           overlap == IF overlap_paragraphs > 0
                      THEN LastK(f.buf, overlap_paragraphs) ELSE <<>>
           overlap_ix == IF overlap_paragraphs > 0
                         THEN LastK(IF f.buf = <<>> THEN <<>> ELSE buf_ix,
                                    overlap_paragraphs)
                         ELSE <<>>
       IN  /\ buf_len + p_len > max_chars
           /\ chunks' = f.chunks
           /\ chunk_id' = f.chunk_id
           /\ buf' = overlap \o <<p>>
           /\ buf_len' = SumLen2(overlap \o <<p>>)
           /\ buf_start_char' = IF overlap # <<>>
                                THEN Max(running - SumLen2(overlap), block_start)
                                ELSE running
           /\ running' = running + p_len
           /\ buf_ix' = overlap_ix \o <<pidx>>
    /\ flushes' = Append(flushes, FlushEntry("overflow"))
    /\ pidx' = pidx + 1
    /\ UNCHANGED nonChunkerVars
    /\ UNCHANGED <<raw, max_chars, min_chars, overlap_paragraphs, blocks, bidx,
                   paras, ck_pc>>

\* flush(running) after the paragraph loop; then the next block
EndBlock ==
    /\ ck_pc = "para" /\ pidx > Len(paras)
    /\ LET f == flush(chunks, chunk_id, buf, buf_len, blocks[bidx].heading,
                      buf_start_char, running, min_chars)
       IN  /\ chunks' = f.chunks
           /\ chunk_id' = f.chunk_id
           /\ buf' = f.buf
           /\ buf_len' = f.buf_len
    /\ flushes' = IF buf = <<>> THEN flushes ELSE Append(flushes, FlushEntry("end"))
    /\ buf_ix' = <<>>
    /\ bidx' = bidx + 1
    /\ ck_pc' = "block"
    /\ UNCHANGED nonChunkerVars
    /\ UNCHANGED <<raw, max_chars, min_chars, overlap_paragraphs, blocks,
                   paras, pidx, buf_start_char, running>>

\* return chunks
ReturnChunks ==
    /\ ck_pc = "block" /\ bidx > Len(blocks)
    /\ ck_pc' = "done"
    /\ UNCHANGED nonChunkerVars
    /\ UNCHANGED <<raw, max_chars, min_chars, overlap_paragraphs, blocks, bidx,
                   paras, pidx, buf, buf_len, buf_start_char, running,
                   chunks, chunk_id, buf_ix, flushes>>

NextChunker ==
    \/ SplitBlocks
    \/ BeginBlock
    \/ ParaFirst
    \/ ParaAppend
    \/ ParaOverflow
    \/ EndBlock
    \/ ReturnChunks

SpecChunker == InitChunker /\ [][NextChunker]_vars

\* ================================================================= scorer
MaxControls      == 2   \* longest input control list
MaxClauses       == 2   \* most retrieved clauses handed to the scorer
MaxModelControls == 2   \* most controls in the model's response

Fully     == "Fully Compliant"
Partially == "Partially Compliant"
Non       == "Non-Compliant"

\* values of a control's "covered" field in the model's JSON: true, false, or
\* a value that is truthy without being the object True (1, "yes")
CovTrue   == "True"
CovFalse  == "False"
CovTruthy == "yes"

MAX_CONF         == 95
MIN_CONF         == 30
NO_EVIDENCE_CONF == 20

ControlNames == {"c1", "c2"}
ScoreVals    == {10, 30, 50}          \* similarity scores, in hundredths
EvidenceVals == {<<>>, <<0>>, <<0, 1>>}   \* evidence lists (chunk ids quoted)

SeqsUpTo(S, n) == UNION {[1..k -> S] : k \in 0..n}

ControlLists  == SeqsUpTo(ControlNames, MaxControls)
ClauseLists   == SeqsUpTo([chunk_id : {0}, score : ScoreVals], MaxClauses)
ModelControls == SeqsUpTo([name : {"m"}, covered : {CovTrue, CovFalse, CovTruthy},
                           evidence : EvidenceVals], MaxModelControls)

\* what the model says about status and confidence
ModelClaims == {[status |-> Fully, confidence |-> 100],
                [status |-> Non, confidence |-> 0]}

\* the response text: JSON, JSON wrapped in prose (recovered by the brace
\* extraction), or text that holds no JSON object; the JSON's "controls" is a
\* list or something else
Responses ==
    {[kind |-> "garbage", status |-> Non, confidence |-> 0,
      controls_is_list |-> FALSE, controls |-> <<>>]}
    \cup
    {[kind |-> k, status |-> c.status, confidence |-> c.confidence,
      controls_is_list |-> TRUE, controls |-> mc] :
        k \in {"json", "wrapped"}, c \in ModelClaims, mc \in ModelControls}
    \cup
    {[kind |-> k, status |-> c.status, confidence |-> c.confidence,
      controls_is_list |-> FALSE, controls |-> <<>>] :
        k \in {"json", "wrapped"}, c \in ModelClaims}

\* [{"name": c, "covered": False, "evidence": []} for c in controls]
UncoveredControls(cs) ==
    [i \in 1..Len(cs) |-> [name |-> cs[i], covered |-> CovFalse, evidence |-> <<>>]]

\* faulty variant: the no-evidence verdict carries the floor of the clamp instead
NoEvidenceVerdict_min_conf(name, cs) ==
    [requirement |-> name, status |-> Non, confidence |-> MIN_CONF,
     controls |-> UncoveredControls(cs)]

\* if not retrieved_clauses: return {...}
NoEvidenceVerdict(name, cs) ==
    [requirement |-> name, status |-> Non, confidence |-> NO_EVIDENCE_CONF,
     controls |-> UncoveredControls(cs)]

\* json.loads(raw), else json.loads(raw[raw.find("{"):raw.rfind("}") + 1])
Parseable(r) == r.kind \in {"json", "wrapped"}

\* if not isinstance(data.get("controls"), list): data["controls"] = [...]
EnsureControls(r, cs) ==
    IF r.controls_is_list THEN r.controls ELSE UncoveredControls(cs)

Truthy(cov) == cov \in {CovTrue, CovTruthy}

\* faulty variant: the post-validation loop is missing
RepairControls_none(mcs) == mcs

\* if ctrl.get("covered") and not ctrl.get("evidence"): ctrl["covered"] = False
RepairControls(mcs) ==
    [i \in 1..Len(mcs) |->
        IF Truthy(mcs[i].covered) /\ mcs[i].evidence = <<>>
        THEN [mcs[i] EXCEPT !.covered = CovFalse]
        ELSE mcs[i]]

\* sum(1 for c in data["controls"] if c.get("covered") is True)
CoveredCount(mcs) == Cardinality({i \in 1..Len(mcs) : mcs[i].covered = CovTrue})

\* sum(len(c.get("evidence", [])) for c in data["controls"])
RECURSIVE EvidenceQuotes(_)
EvidenceQuotes(mcs) ==
    IF mcs = <<>> THEN 0 ELSE Len(Head(mcs).evidence) + EvidenceQuotes(Tail(mcs))

\* len(x) or y
LenOr(q, y) == IF Len(q) # 0 THEN Len(q) ELSE y

\* faulty variant: any covered control makes the requirement fully compliant
StatusOf_any_covered(mcs, cs) ==
    IF CoveredCount(mcs) > 0 THEN Fully ELSE Non

\* total = len(data["controls"]) or len(controls); covered_count = ...;
\* the if / elif / else that assigns data["status"]
StatusOf(mcs, cs) ==
    LET total == LenOr(mcs, Len(cs))
        covered_count == CoveredCount(mcs)
    IN  IF total > 0 /\ covered_count = total THEN Fully
        ELSE IF covered_count = 0 THEN Non
        ELSE Partially

RECURSIVE SumScores(_)
SumScores(cl) == IF cl = <<>> THEN 0 ELSE Head(cl).score + SumScores(Tail(cl))

\* total_controls = len(controls) or 1
TotalControls(cs) == LenOr(cs, 1)

\* base = 20 + int(60 * coverage_ratio), coverage_ratio = covered / total
BaseFromRatio(covered, total) == 20 + ((60 * covered) \div total)

\* the three adjustments: quotes, average retrieval score, status.
\* avg_score = sum(scores) / len(scores), compared in hundredths
AdjustedBase(b0, quotes, cl, status) ==
    LET b1 == IF quotes > 0 THEN b0 + 5 ELSE Min(b0, NO_EVIDENCE_CONF)
        b2 == IF cl # <<>> /\ SumScores(cl) >= 40 * Len(cl) THEN b1 + 5
              ELSE IF cl = <<>> \/ SumScores(cl) < 25 * Len(cl) THEN b1 - 5
              ELSE b1
    IN  IF status = Fully THEN b2 + 5
        ELSE IF status = Non THEN b2 - 5
        ELSE b2

\* faulty variant: the adjusted base is returned as it is
FinalConfidence_unclamped(b, quotes) == b

\* if evidence_quotes == 0: min(NO_EVIDENCE_CONF, MAX_CONF)
\* else: max(MIN_CONF, min(base, MAX_CONF))
FinalConfidence(b, quotes) ==
    IF quotes = 0 THEN Min(NO_EVIDENCE_CONF, MAX_CONF)
    ELSE Max(MIN_CONF, Min(b, MAX_CONF))

InitScorer ==
    /\ requirement_name \in {"R1"}
    /\ controls \in ControlLists
    /\ retrieved_clauses \in ClauseLists
    /\ resp = NoResponse /\ llm_calls = 0
    /\ total_controls = 0 /\ covered_controls = 0 /\ evidence_quotes = 0
    /\ base_ratio = 0 /\ base = 0
    /\ verdict = NoVerdict /\ an_pc = "call"
    /\ ChunkerIdle
    /\ RetrieverIdle
    /\ TaggerIdle
    /\ IndexIdle
    /\ AppIdle

\* the no-evidence branch: return without calling the model
NoEvidence ==
    /\ an_pc = "call"
    /\ retrieved_clauses = <<>>
    /\ verdict' = NoEvidenceVerdict(requirement_name, controls)
    /\ an_pc' = "returned"
    /\ UNCHANGED <<requirement_name, controls, retrieved_clauses, resp,
                   llm_calls, total_controls, covered_controls,
                   evidence_quotes, base_ratio, base>>
    /\ UNCHANGED nonScorerVars

\* resp = client.chat.completions.create(...): any response text
Generate ==
    /\ an_pc = "call"
    /\ retrieved_clauses # <<>>
    /\ \E r \in Responses : resp' = r
    /\ llm_calls' = llm_calls + 1
    /\ an_pc' = "generated"
    /\ UNCHANGED <<requirement_name, controls, retrieved_clauses,
                   total_controls, covered_controls, evidence_quotes,
                   base_ratio, base, verdict>>
    /\ UNCHANGED nonScorerVars

\* the second json.loads raises: the exception leaves analyze_requirement
ParseFail ==
    /\ an_pc = "generated"
    /\ ~Parseable(resp)
    /\ an_pc' = "raised"
    /\ UNCHANGED <<requirement_name, controls, retrieved_clauses, resp,
                   llm_calls, total_controls, covered_controls,
                   evidence_quotes, base_ratio, base, verdict>>
    /\ UNCHANGED nonScorerVars

\* parse, drop the model's confidence, repair, recompute status and confidence
Score ==
    /\ an_pc = "generated"
    /\ Parseable(resp)
    /\ LET mcs    == RepairControls(EnsureControls(resp, controls))
           status == StatusOf(mcs, controls)
           tc     == TotalControls(controls)
           cc     == CoveredCount(mcs)
           eq     == EvidenceQuotes(mcs)
           b0     == BaseFromRatio(cc, tc)
           b      == AdjustedBase(b0, eq, retrieved_clauses, status)
       IN  /\ total_controls' = tc
           /\ covered_controls' = cc
           /\ evidence_quotes' = eq
           /\ base_ratio' = b0
           /\ base' = b
           /\ verdict' = [requirement |-> "model", status |-> status,
                          confidence |-> FinalConfidence(b, eq),
                          controls |-> mcs]
    /\ an_pc' = "returned"
    /\ UNCHANGED <<requirement_name, controls, retrieved_clauses, resp,
                   llm_calls>>
    /\ UNCHANGED nonScorerVars

NextScorer ==
    \/ NoEvidence
    \/ Generate
    \/ ParseFail
    \/ Score

SpecScorer == InitScorer /\ [][NextScorer]_vars

\* ----------------------------------------- chunk_text as one evaluation
\* the frame of chunk_text between two iterations of the paragraph loop
ParaStep(st, p, block, maxc, minc, ovl) ==
    LET p_len == CharLen(p) + 2
    IN  IF st.buf = <<>>
        THEN [st EXCEPT !.buf = <<p>>, !.buf_len = p_len,
                        !.buf_start_char = st.running,
                        !.running = st.running + p_len]
        ELSE IF st.buf_len + p_len <= maxc
        THEN [st EXCEPT !.buf = Append(st.buf, p),
                        !.buf_len = st.buf_len + p_len,
                        !.running = st.running + p_len]
        ELSE LET f == flush(st.chunks, st.chunk_id, st.buf, st.buf_len,
                            block.heading, st.buf_start_char, st.running, minc)
                 overlap == IF ovl > 0 THEN LastK(f.buf, ovl) ELSE <<>>
             IN  [chunks   |-> f.chunks,
                  chunk_id |-> f.chunk_id,
                  buf      |-> overlap \o <<p>>,
                  buf_len  |-> SumLen2(overlap \o <<p>>),
                  buf_start_char |->
                      IF overlap # <<>>
                      THEN Max(st.running - SumLen2(overlap), block.start)
                      ELSE st.running,
                  running  |-> st.running + p_len]

RECURSIVE ParaLoop(_, _, _, _, _, _)
ParaLoop(st, ps, block, maxc, minc, ovl) ==
    IF ps = <<>> THEN st
    ELSE ParaLoop(ParaStep(st, Head(ps), block, maxc, minc, ovl),
                  Tail(ps), block, maxc, minc, ovl)

\* one iteration of `for block in blocks`, the closing flush(running) included
BlockStep(cs, cid, block, maxc, minc, ovl) ==
    LET st0 == [chunks |-> cs, chunk_id |-> cid, buf |-> <<>>, buf_len |-> 0,
                buf_start_char |-> block.start, running |-> block.start]
        st  == ParaLoop(st0, para_split(block.text), block, maxc, minc, ovl)
    IN  flush(st.chunks, st.chunk_id, st.buf, st.buf_len, block.heading,
              st.buf_start_char, st.running, minc)

RECURSIVE BlockLoop(_, _, _, _, _, _)
BlockLoop(cs, cid, bs, maxc, minc, ovl) ==
    IF bs = <<>> THEN cs
    ELSE LET f == BlockStep(cs, cid, Head(bs), maxc, minc, ovl)
         IN  BlockLoop(f.chunks, f.chunk_id, Tail(bs), maxc, minc, ovl)

chunk_text(text, maxc, minc, ovl) ==
    BlockLoop(<<>>, 0, split_into_section_blocks(ReplaceCR(text)), maxc, minc, ovl)

\* the step-wise chunker and the single evaluation agree
ChunkerAgrees ==
    ck_pc = "done" => chunks = chunk_text(raw, max_chars, min_chars, overlap_paragraphs)

\* ========================================================= section tagger
\* find_section_label works on characters.  Its inputs are built from a few
\* words and then spelled out character by character, so that the word
\* boundaries, the case folding and the backtracking of the three patterns are
\* those of the source.
MaxTagTokens == 5

SectionWord == "Section "
ExhibitWord == "exhibit "
Digit       == "4"
Dotted      == "4.2"

TagTokens == {SectionWord, ExhibitWord, Digit, Dotted, A, SP, NL}

Spell(t) == CASE t = SectionWord -> <<"S", "e", "c", "t", "i", "o", "n", " ">>
              [] t = ExhibitWord -> <<"e", "x", "h", "i", "b", "i", "t", " ">>
              [] t = Dotted      -> <<"4", ".", "2">>
              [] t = HD          -> <<"s", "e", "c", " ", "1">>
              [] t \in {W100, W1000} -> <<"x", "x">>   \* one word, as any run of x
              [] OTHER           -> <<t>>

RECURSIVE SpellAll(_)
SpellAll(toks) ==
    IF toks = <<>> THEN <<>> ELSE Spell(Head(toks)) \o SpellAll(Tail(toks))

TagTexts == UNION {[1..n -> TagTokens] : n \in 0..MaxTagTokens}

Letters == {"S", "e", "c", "t", "i", "o", "n", "x", "h", "b", "a"}
Digits  == {"4", "2", "1"}

IsDigit(c) == c \in Digits
IsWordChar(c) == c \in Letters \cup Digits

\* re.IGNORECASE compares case-folded characters; str.upper() on a group
Lower(c) == IF c = "S" THEN "s" ELSE c
Upper(c) == CASE c = "a" -> "A" [] c = "b" -> "B" [] c = "c" -> "C"
              [] c = "e" -> "E" [] c = "h" -> "H" [] c = "i" -> "I"
              [] c = "n" -> "N" [] c = "o" -> "O" [] c = "t" -> "T"
              [] c = "x" -> "X" [] OTHER -> c
UpperAll(s) == [i \in 1..Len(s) |-> Upper(s[i])]

\* \b between s[i - 1] and s[i]
WordBoundary(s, i) ==
    LET before == i - 1 \in 1..Len(s) /\ IsWordChar(s[i - 1])
        after  == i \in 1..Len(s) /\ IsWordChar(s[i])
    IN  before # after

\* the literal `lit` at i, ignoring case
LiteralAt(s, i, lit) ==
    /\ i + Len(lit) - 1 <= Len(s)
    /\ \A k \in 1..Len(lit) : Lower(s[i + k - 1]) = Lower(lit[k])

RECURSIVE SkipDigits(_, _)
SkipDigits(s, j) == IF j <= Len(s) /\ IsDigit(s[j]) THEN SkipDigits(s, j + 1) ELSE j

\* \d+(?:\.\d+)* from k: the indices just past each complete component, the
\* shortest first; empty when no digit stands at k
RECURSIVE NumberEnds(_, _)
NumberEnds(s, k) ==
    IF ~(k <= Len(s) /\ IsDigit(s[k])) THEN <<>>
    ELSE LET e == SkipDigits(s, k)
         IN  <<e>> \o (IF e <= Len(s) /\ s[e] = "." THEN NumberEnds(s, e + 1)
                       ELSE <<>>)

\* the backtracking of a greedy pattern: the last end that lets the rest match
LastGood(ends, Good) ==
    LET ok == {n \in 1..Len(ends) : Good[ends[n]]}
    IN  IF ok = {} THEN 0 ELSE ends[CHOOSE n \in ok : \A m \in ok : m <= n]

NoMatch == [matched |-> FALSE, group |-> <<>>]

\* SECTION_RE anchored at i: \bSection\s+(\d+(?:\.\d+)*)\b
SectionAt(s, i) ==
    LET lit  == <<"s", "e", "c", "t", "i", "o", "n">>
        j    == i + Len(lit)
        k    == SkipSpace(s, j)
        ends == NumberEnds(s, k)
        e    == LastGood(ends, [x \in 1..(Len(s) + 1) |-> WordBoundary(s, x)])
    IN  IF WordBoundary(s, i) /\ LiteralAt(s, i, lit) /\ k > j /\ e > 0
        THEN [matched |-> TRUE, group |-> SubSeq(s, k, e - 1)]
        ELSE NoMatch

\* EXHIBIT_RE anchored at i: \bExhibit\s+([A-Z]\d*|[A-Z])\b
ExhibitAt(s, i) ==
    LET lit == <<"e", "x", "h", "i", "b", "i", "t">>
        j   == i + Len(lit)
        k   == SkipSpace(s, j)
        e   == SkipDigits(s, k + 1)
    IN  IF /\ WordBoundary(s, i) /\ LiteralAt(s, i, lit) /\ k > j
           /\ k <= Len(s) /\ s[k] \in Letters
           /\ WordBoundary(s, e)
        THEN [matched |-> TRUE, group |-> SubSeq(s, k, e - 1)]
        ELSE NoMatch

\* PLAIN_NUM_RE anchored at i: ^\s*(\d+(?:\.\d+)+)\s+ with re.MULTILINE
PlainNumAt(s, i) ==
    LET k    == SkipSpace(s, i)
        ends == NumberEnds(s, k)
        e    == IF Len(ends) >= 2 THEN ends[Len(ends)] ELSE 0
    IN  IF /\ (i = 1 \/ s[i - 1] = NL)
           /\ e > 0 /\ e <= Len(s) /\ IsSpace(s[e])
        THEN [matched |-> TRUE, group |-> SubSeq(s, k, e - 1)]
        ELSE NoMatch

\* pattern.search(text): the match at the leftmost position that has one
RECURSIVE SectionSearch(_, _)
SectionSearch(s, i) ==
    IF i > Len(s) + 1 THEN NoMatch
    ELSE IF SectionAt(s, i).matched THEN SectionAt(s, i)
    ELSE SectionSearch(s, i + 1)

RECURSIVE ExhibitSearch(_, _)
ExhibitSearch(s, i) ==
    IF i > Len(s) + 1 THEN NoMatch
    ELSE IF ExhibitAt(s, i).matched THEN ExhibitAt(s, i)
    ELSE ExhibitSearch(s, i + 1)

RECURSIVE PlainNumSearch(_, _)
PlainNumSearch(s, i) ==
    IF i > Len(s) + 1 THEN NoMatch
    ELSE IF PlainNumAt(s, i).matched THEN PlainNumAt(s, i)
    ELSE PlainNumSearch(s, i + 1)

SectionPrefix == <<"S", "e", "c", "t", "i", "o", "n", " ">>
ExhibitPrefix == <<"E", "x", "h", "i", "b", "i", "t", " ">>

\* faulty variant: the Exhibit pattern is tried before the Section pattern
find_section_label_exhibit_first(text) ==
    LET sec == SectionSearch(text, 1)
        exh == ExhibitSearch(text, 1)
        num == PlainNumSearch(text, 1)
    IN  IF exh.matched
        THEN [found |-> TRUE, label |-> ExhibitPrefix \o UpperAll(exh.group)]
        ELSE IF sec.matched
        THEN [found |-> TRUE, label |-> SectionPrefix \o sec.group]
        ELSE IF num.matched
        THEN [found |-> TRUE, label |-> SectionPrefix \o num.group]
        ELSE NoLabel

find_section_label(text) ==
    LET sec == SectionSearch(text, 1)
        exh == ExhibitSearch(text, 1)
        num == PlainNumSearch(text, 1)
    IN  IF sec.matched
        THEN [found |-> TRUE, label |-> SectionPrefix \o sec.group]
        ELSE IF exh.matched
        THEN [found |-> TRUE, label |-> ExhibitPrefix \o UpperAll(exh.group)]
        ELSE IF num.matched
        THEN [found |-> TRUE, label |-> SectionPrefix \o num.group]
        ELSE NoLabel

InitTagger ==
    /\ tag_text \in {SpellAll(t) : t \in TagTexts}
    /\ tag_label = NoLabel
    /\ tag_pc = "call"
    /\ ChunkerIdle
    /\ ScorerIdle
    /\ RetrieverIdle
    /\ IndexIdle
    /\ AppIdle

FindSectionLabel ==
    /\ tag_pc = "call"
    /\ tag_label' = find_section_label(tag_text)
    /\ tag_pc' = "done"
    /\ UNCHANGED tag_text
    /\ UNCHANGED nonTaggerVars

NextTagger == FindSectionLabel

SpecTagger == InitTagger /\ [][NextTagger]_vars

\* ============================================================== ingestion
\* re.sub(r"\s+", " ", text)
RECURSIVE CollapseSpace(_)
CollapseSpace(s) ==
    IF s = <<>> THEN <<>>
    ELSE IF IsSpace(Head(s)) THEN <<SP>> \o CollapseSpace(LStrip(s))
    ELSE <<Head(s)>> \o CollapseSpace(Tail(s))

\* re.sub(r"-\s+", "", text)
RECURSIVE DropHyphenBreaks(_)
DropHyphenBreaks(s) ==
    IF s = <<>> THEN <<>>
    ELSE IF Head(s) = HYPH /\ Len(s) >= 2 /\ IsSpace(s[2])
         THEN DropHyphenBreaks(LStrip(Tail(s)))
    ELSE <<Head(s)>> \o DropHyphenBreaks(Tail(s))

\* clean_text
clean_text(text) ==
    IF text = <<>> THEN <<>>
    ELSE Strip(DropHyphenBreaks(CollapseSpace(text)))

\* ====================================================== store, retrievers
MaxDocs == 2            \* most vectors in the store

\* An embedding is a planar vector: a direction in steps of 60 degrees and a
\* length (0 for the zero vector).
DocVecs   == {[dir |-> d, len |-> 1] : d \in 0..2}
             \cup {[dir |-> 0, len |-> 0], [dir |-> 1, len |-> 2]}
QueryVecs == {[dir |-> 0, len |-> 1], [dir |-> 1, len |-> 2]}

\* _normalize: vectors / (norm + 1e-12); the zero vector stays zero
Normalize(v) == [dir |-> v.dir, len |-> IF v.len = 0 THEN 0 ELSE 1]

\* inner product of two normalized vectors, in hundredths: the cosine of the
\* angle between them
InnerProduct(u, v) ==
    IF u.len = 0 \/ v.len = 0 THEN 0
    ELSE LET d == IF u.dir >= v.dir THEN u.dir - v.dir ELSE v.dir - u.dir
         IN  CASE d = 0 -> 100
               [] d = 1 -> 50
               [] d = 2 -> 0 - 50
               [] OTHER -> 0 - 100

\* metas[i], or {} when add is called without metas
EmptyMeta == [present |-> FALSE, chunk_id |-> 0, label |-> ""]
Metas == {EmptyMeta} \cup {[present |-> TRUE, chunk_id |-> c, label |-> "Section 1"] :
                             c \in 0..1}

Docs == [vec : DocVecs, text : {"t"}, meta : Metas]

TopKVals     == {1, 2}
MinScoreVals == {25, 50}

\* FaissVectorStore.add: rows are normalized and appended, ids continue from
\* len(text_by_id)
StoreAfterAdd(st, batch) ==
    st \o [i \in 1..Len(batch) |->
              [vec |-> Normalize(batch[i].vec), text |-> batch[i].text,
               meta |-> batch[i].meta]]

\* score of stored id (0-based) against the normalized query
ScoreOf(st, q, id) == InnerProduct(st[id + 1].vec, Normalize(q))

\* the best remaining row: highest inner product, lowest id among equals
\* (IndexFlatIP scans rows in id order)
BestId(st, q, ids) ==
    CHOOSE i \in ids : \A j \in ids :
        \/ ScoreOf(st, q, i) > ScoreOf(st, q, j)
        \/ ScoreOf(st, q, i) = ScoreOf(st, q, j) /\ i <= j

RECURSIVE TopIds(_, _, _, _)
TopIds(st, q, ids, k) ==
    IF k = 0 \/ ids = {} THEN <<>>
    ELSE LET b == BestId(st, q, ids)
         IN  <<b>> \o TopIds(st, q, ids \ {b}, k - 1)

\* FaissVectorStore.search: up to top_k (doc_id, score, text, meta) by
\* descending inner product; the -1 padding of a short index is skipped
search(st, query_embedding, top_k) ==
    LET ids == TopIds(st, query_embedding, 0..(Len(st) - 1), top_k)
    IN  [i \in 1..Len(ids) |->
            [doc_id |-> ids[i],
             score  |-> ScoreOf(st, query_embedding, ids[i]),
             text   |-> st[ids[i] + 1].text,
             meta   |-> st[ids[i] + 1].meta]]

\* meta.get("chunk_id", doc_id)
ChunkIdOf(h) == IF h.meta.present THEN h.meta.chunk_id ELSE h.doc_id

\* meta.get("label", f"Chunk {doc_id}")
LabelOf(h) == IF h.meta.present THEN h.meta.label ELSE "Chunk"

\* faulty variant: a hit exactly at the threshold is dropped
ScoreOK_strict(r, min_score) == r.score > min_score

\* r["score"] >= min_score
ScoreOK(r, min_score) == r.score >= min_score

\* retrieve_clauses, after the embedding and the search: build the result
\* dicts, then filter by relevance
ClauseResults(hits, min_score) ==
    LET results == [i \in 1..Len(hits) |->
                       [chunk_id |-> ChunkIdOf(hits[i]),
                        label    |-> LabelOf(hits[i]),
                        score    |-> hits[i].score,
                        text     |-> hits[i].text]]
        Keep(r) == ScoreOK(r, min_score)
    IN  SelectSeq(results, Keep)

\* faulty variant: the chat retriever applies the requirement retriever's default
\* threshold of 0.25
ChatResults_thresholded(hits) ==
    LET all == [i \in 1..Len(hits) |->
                   [chunk_id |-> ChunkIdOf(hits[i]), score |-> hits[i].score,
                    text |-> hits[i].text]]
        Keep(r) == ScoreOK(r, 25)
    IN  SelectSeq(all, Keep)

\* retrieve_for_chat, after the embedding and the search: one dict per hit,
\* no filter
ChatResults(hits) ==
    [i \in 1..Len(hits) |->
        [chunk_id |-> ChunkIdOf(hits[i]), score |-> hits[i].score,
         text |-> hits[i].text]]

InitRetriever ==
    /\ RetrieverIdle
    /\ ChunkerIdle
    /\ ScorerIdle
    /\ TaggerIdle
    /\ IndexIdle
    /\ AppIdle

\* store.add(embeddings, texts, metas) with a batch of one or more rows; the
\* index is built before the first query and only read afterwards
StoreAdd ==
    /\ ~rc_args.called /\ ~chat_args.called
    /\ Len(store) < MaxDocs
    /\ \E n \in 1..(MaxDocs - Len(store)) : \E batch \in [1..n -> Docs] :
          store' = StoreAfterAdd(store, batch)
    /\ UNCHANGED <<rc_args, rc_hits, rc_result, chat_args, chat_hits, chat_result>>
    /\ UNCHANGED nonRetrieverVars

\* retrieve_clauses(store, requirement_name, requirement_description,
\*                  controls, top_k, min_score); q_emb is what the embedding
\* provider returns for the concatenated query
RetrieveClauses ==
    /\ \E q_emb \in QueryVecs : \E top_k \in TopKVals : \E min_score \in MinScoreVals :
          LET hits == search(store, q_emb, top_k)
          IN  /\ rc_args' = [called |-> TRUE, q_emb |-> q_emb, top_k |-> top_k,
                             min_score |-> min_score, ntotal |-> Len(store)]
              /\ rc_hits' = hits
              /\ rc_result' = ClauseResults(hits, min_score)
    /\ UNCHANGED <<store, chat_args, chat_hits, chat_result>>
    /\ UNCHANGED nonRetrieverVars

\* retrieve_for_chat(store, question, top_k); q_emb is what the embedding
\* provider returns for the question
RetrieveForChat ==
    /\ \E q_emb \in QueryVecs : \E top_k \in TopKVals :
          LET hits == search(store, q_emb, top_k)
          IN  /\ chat_args' = [called |-> TRUE, q_emb |-> q_emb, top_k |-> top_k,
                               min_score |-> 0, ntotal |-> Len(store)]
              /\ chat_hits' = hits
              /\ chat_result' = ChatResults(hits)
    /\ UNCHANGED <<store, rc_args, rc_hits, rc_result>>
    /\ UNCHANGED nonRetrieverVars

NextRetriever ==
    \/ StoreAdd
    \/ RetrieveClauses
    \/ RetrieveForChat

SpecRetriever == InitRetriever /\ [][NextRetriever]_vars

\* ============================================================ index build
\* app.py, step 2: chunk the text, label every chunk, embed the chunk texts and
\* add them in one call to a fresh store; then retrieve from that store.
MaxIndexTokens == 6

IndexTexts == UNION {[1..n -> Tokens] : n \in 0..MaxIndexTokens}

\* what the embedding provider may return for a chunk text
IndexVecs == {[dir |-> d, len |-> 1] : d \in 0..2}

RunTopK     == 12      \* retrieve_clauses(..., top_k=12, ...)
RunMinScore == 25      \* min_score = 0.25, in hundredths

DefaultOverlapParagraphs == 1   \* the call passes no overlap_paragraphs

Unlabeled == <<"U", "n", "l", "a", "b", "e", "l", "e", "d">>

\* find_section_label(c["text"]) or "Unlabeled"
LabelFor(text) ==
    LET l == find_section_label(SpellAll(text))
    IN  IF l.found THEN l.label ELSE Unlabeled

\* faulty variant: the metadata numbers the chunks from 1
IndexBatch_from_one(cs, embs) ==
    [i \in 1..Len(cs) |->
        [vec  |-> embs[i],
         text |-> cs[i].text,
         meta |-> [present |-> TRUE, chunk_id |-> cs[i].id + 1,
                   label |-> LabelFor(cs[i].text)]]]

\* chunk_texts, metas and embs, row by row as store.add receives them
IndexBatch(cs, embs) ==
    [i \in 1..Len(cs) |->
        [vec  |-> embs[i],
         text |-> cs[i].text,
         meta |-> [present |-> TRUE, chunk_id |-> cs[i].id,
                   label |-> LabelFor(cs[i].text)]]]

InitIndex ==
    /\ ix_text \in IndexTexts
    /\ ix_params \in [max_chars : MaxCharsVals, min_chars : MinCharsVals,
                      overlap_paragraphs : {DefaultOverlapParagraphs}]
    /\ ix_chunks = <<>>
    /\ ix_pc = "chunk"
    /\ RetrieverIdle
    /\ ChunkerIdle
    /\ ScorerIdle
    /\ TaggerIdle
    /\ AppIdle

\* chunks = chunk_text(contract_text, ...)
ChunkText ==
    /\ ix_pc = "chunk"
    /\ ix_chunks' = chunk_text(ix_text, ix_params.max_chars, ix_params.min_chars,
                               ix_params.overlap_paragraphs)
    /\ ix_pc' = "embed"
    /\ UNCHANGED <<ix_text, ix_params>>
    /\ UNCHANGED retrieverVars
    /\ UNCHANGED nonIndexVars

\* metas, embed_cached, FaissVectorStore(dim=len(embs[0])), store.add
BuildIndex ==
    /\ ix_pc = "embed"
    /\ ix_chunks # <<>>
    /\ \E embs \in [1..Len(ix_chunks) -> IndexVecs] :
          store' = StoreAfterAdd(<<>>, IndexBatch(ix_chunks, embs))
    /\ ix_pc' = "indexed"
    /\ UNCHANGED <<ix_text, ix_params, ix_chunks>>
    /\ UNCHANGED <<rc_args, rc_hits, rc_result, chat_args, chat_hits, chat_result>>
    /\ UNCHANGED nonIndexVars

\* with no chunk there is no embs[0] to read the dimension from: the build
\* raises before a store exists
BuildIndexFails ==
    /\ ix_pc = "embed"
    /\ ix_chunks = <<>>
    /\ ix_pc' = "failed"
    /\ UNCHANGED <<ix_text, ix_params, ix_chunks>>
    /\ UNCHANGED retrieverVars
    /\ UNCHANGED nonIndexVars

\* retrieve_clauses(store, ..., top_k=12, min_score=0.25) on the built store
RetrieveEvidence ==
    /\ ix_pc = "indexed"
    /\ \E q_emb \in QueryVecs :
          LET hits == search(store, q_emb, RunTopK)
          IN  /\ rc_args' = [called |-> TRUE, q_emb |-> q_emb, top_k |-> RunTopK,
                             min_score |-> RunMinScore, ntotal |-> Len(store)]
              /\ rc_hits' = hits
              /\ rc_result' = ClauseResults(hits, RunMinScore)
    /\ ix_pc' = "retrieved"
    /\ UNCHANGED <<ix_text, ix_params, ix_chunks>>
    /\ UNCHANGED <<store, chat_args, chat_hits, chat_result>>
    /\ UNCHANGED nonIndexVars

NextIndex ==
    \/ ChunkText
    \/ BuildIndex
    \/ BuildIndexFails
    \/ RetrieveEvidence

SpecIndex == InitIndex /\ [][NextIndex]_vars

\* =================================================================== app
\* app.py as Streamlit runs it: every interaction reruns the script from the
\* top with st.session_state kept; st.stop() and an uncaught exception both
\* end the run where they happen.
MaxChatMessages == 2    \* chat is offered while the history has room for a question and its answer

GateChars        == 200
PipelineMaxChars == 3000
PipelineMinChars == 400

\* what the extraction backends may return for the uploaded PDFs
ShortDoc == <<W100>>
ThinDoc  == <<W100, NL, W100, SP, SP, W100>>
PlainDoc == <<HD, SP, W100, NL, NL, W1000>>
LongDoc  == <<W1000, HYPH, NL, W1000, SP, W1000, NL, W1000, SP, W100>>

AppDocs == {ShortDoc, ThinDoc, PlainDoc, LongDoc}

\* hashlib.md5(contract_text.encode("utf-8")).hexdigest(): a digest of the
\* characters, folded token by token
RECURSIVE Digest(_, _)
Digest(h, text) ==
    IF text = <<>> THEN h
    ELSE Digest((h * 31 + TokLen(Head(text)) + Len(text)) % 65521, Tail(text))

ContentHash(text) == Digest(7, text)

\* load_contract_pdf_bytes returns clean_text of what was extracted
load_contract_pdf_bytes(pdf) == clean_text(pdf)

\* if not contract_text or len(contract_text) < 200: st.stop()
PassesGate(text) == text # <<>> /\ CharLen(text) >= GateChars

\* chunk_text(contract_text, max_chars=3000, overlap_chars=300, min_chars=400)
PipelineChunks(text) ==
    chunk_text(text, PipelineMaxChars, PipelineMinChars, DefaultOverlapParagraphs)

\* load_standards(): the requirement catalog
Standards == << [name |-> "R1", controls |-> <<"c1", "c2">>],
                [name |-> "R2", controls |-> <<"c1">>],
                [name |-> "R3", controls |-> <<"c2">>] >>

\* what the claim-generation call may answer in a batch
GarbageResponse ==
    [kind |-> "garbage", status |-> Non, confidence |-> 0,
     controls_is_list |-> FALSE, controls |-> <<>>]

CoveredResponse ==
    [kind |-> "json", status |-> Fully, confidence |-> 100,
     controls_is_list |-> TRUE,
     controls |-> << [name |-> "m", covered |-> CovTrue, evidence |-> <<0>>] >>]

BareResponse ==
    [kind |-> "wrapped", status |-> Fully, confidence |-> 100,
     controls_is_list |-> FALSE, controls |-> <<>>]

AppResponses == {GarbageResponse, CoveredResponse, BareResponse}

\* analyze_requirement as one evaluation, given the model's response: the
\* verdict it returns, or that it raised
analyze_requirement(name, cs, clauses, r) ==
    IF clauses = <<>>
    THEN [raised |-> FALSE, verdict |-> NoEvidenceVerdict(name, cs)]
    ELSE IF ~Parseable(r)
    THEN [raised |-> TRUE, verdict |-> NoVerdict]
    ELSE LET mcs    == RepairControls(EnsureControls(r, cs))
             status == StatusOf(mcs, cs)
             cc     == CoveredCount(mcs)
             eq     == EvidenceQuotes(mcs)
             b      == AdjustedBase(BaseFromRatio(cc, TotalControls(cs)), eq,
                                    clauses, status)
         IN  [raised |-> FALSE,
              verdict |-> [requirement |-> "model", status |-> status,
                           confidence |-> FinalConfidence(b, eq),
                           controls |-> mcs]]

\* the step-wise scorer and the single evaluation agree
ScorerAgrees ==
    /\ an_pc = "returned" =>
          LET out == analyze_requirement(requirement_name, controls,
                                         retrieved_clauses, resp)
          IN  ~out.raised /\ out.verdict = verdict
    /\ an_pc = "raised" =>
          analyze_requirement(requirement_name, controls,
                              retrieved_clauses, resp).raised

InitApp ==
    /\ SessionFresh
    /\ RunFresh
    /\ app_pc = "idle"
    /\ ChunkerIdle
    /\ ScorerIdle
    /\ RetrieverIdle
    /\ TaggerIdle
    /\ IndexIdle

\* a widget interaction (an upload, a click, a chat question) starts a script
\* run; the session-state initialisation finds every key present
Rerun ==
    /\ app_pc = "idle"
    /\ \E up \in AppDocs \cup {NoUpload} : uploaded' = up
    /\ app_pc' = "top"
    /\ contract_text' = <<>> /\ debug_mode' = FALSE
    /\ run_results' = <<>> /\ debug_retrieval' = {} /\ req_idx' = 0
    /\ run_failed' = 0 /\ run_evaluated' = {} /\ run_reset' = FALSE
    /\ UNCHANGED sessionVars
    /\ UNCHANGED nonAppVars

\* if not uploaded: st.stop()
StopNoUpload ==
    /\ app_pc = "top"
    /\ uploaded = NoUpload
    /\ app_pc' = "idle"
    /\ UNCHANGED <<uploaded, contract_text, debug_mode, run_results,
                   debug_retrieval, req_idx, run_failed, run_evaluated,
                   run_reset>>
    /\ UNCHANGED sessionVars
    /\ UNCHANGED nonAppVars

\* step 1: extract the text; st.stop() when it does not pass the gate
ExtractText ==
    /\ app_pc = "top"
    /\ uploaded # NoUpload
    /\ contract_text' = load_contract_pdf_bytes(uploaded)
    /\ app_pc' = IF PassesGate(contract_text') THEN "hash" ELSE "idle"
    /\ UNCHANGED <<uploaded, debug_mode, run_results, debug_retrieval, req_idx,
                   run_failed, run_evaluated, run_reset>>
    /\ UNCHANGED sessionVars
    /\ UNCHANGED nonAppVars

\* faulty variant: a new document leaves the earlier results in the session
ResultsAfterReset_kept(rs) == rs

\* st.session_state.results = None
ResultsAfterReset(rs) == NoResults

\* contract_hash; if it differs from the session's: take the new hash and
\* text, drop store, results, debug retrieval and chat history
CompareHash ==
    /\ app_pc = "hash"
    /\ LET contract_hash == ContentHash(contract_text)
       IN  IF ss_contract_hash # contract_hash
           THEN /\ ss_contract_hash' = contract_hash
                /\ ss_contract_text' = [present |-> TRUE, text |-> contract_text]
                /\ ss_store' = NoStore
                /\ ss_results' = ResultsAfterReset(ss_results)
                /\ ss_debug_retrieval' = NoDebugRetrieval
                /\ ss_chat_messages' = <<>>
           ELSE UNCHANGED sessionVars
    /\ run_reset' = (ss_store.present
                      /\ ss_contract_hash # ContentHash(contract_text))
    /\ app_pc' = "index"
    /\ UNCHANGED <<uploaded, contract_text, debug_mode, run_results,
                   debug_retrieval, req_idx, run_failed, run_evaluated>>
    /\ UNCHANGED nonAppVars

\* step 2, store is None: chunk, label, embed, add to a fresh store, cache it
BuildStore ==
    /\ app_pc = "index"
    /\ ~ss_store.present
    /\ LET cs == PipelineChunks(contract_text)
       IN  /\ cs # <<>>
           /\ \E embs \in [1..Len(cs) -> IndexVecs] :
                 ss_store' = [present |-> TRUE,
                              rows |-> StoreAfterAdd(<<>>, IndexBatch(cs, embs)),
                              doc |-> contract_text]
    /\ app_pc' = "checks"
    /\ UNCHANGED <<ss_contract_hash, ss_contract_text, ss_results,
                   ss_debug_retrieval, ss_chat_messages>>
    /\ UNCHANGED <<uploaded, contract_text, debug_mode, run_results,
                   debug_retrieval, req_idx, run_failed, run_evaluated,
                   run_reset>>
    /\ UNCHANGED nonAppVars

\* step 2 raises before the store is cached: the embedding call fails, or
\* there is no chunk and so no embs[0]
BuildRaises ==
    /\ app_pc = "index"
    /\ ~ss_store.present
    /\ app_pc' = "idle"
    /\ UNCHANGED <<uploaded, contract_text, debug_mode, run_results,
                   debug_retrieval, req_idx, run_failed, run_evaluated,
                   run_reset>>
    /\ UNCHANGED sessionVars
    /\ UNCHANGED nonAppVars

\* step 2, store cached: nothing is rebuilt
ReuseStore ==
    /\ app_pc = "index"
    /\ ss_store.present
    /\ app_pc' = "checks"
    /\ UNCHANGED <<uploaded, contract_text, debug_mode, run_results,
                   debug_retrieval, req_idx, run_failed, run_evaluated,
                   run_reset>>
    /\ UNCHANGED sessionVars
    /\ UNCHANGED nonAppVars

\* the button was not clicked in this run
SkipChecks ==
    /\ app_pc = "checks"
    /\ app_pc' = "chat"
    /\ UNCHANGED <<uploaded, contract_text, debug_mode, run_results,
                   debug_retrieval, req_idx, run_failed, run_evaluated,
                   run_reset>>
    /\ UNCHANGED sessionVars
    /\ UNCHANGED nonAppVars

\* if run_checks: results = []; debug_retrieval = {}
StartChecks ==
    /\ app_pc = "checks"
    /\ \E dm \in BOOLEAN : debug_mode' = dm
    /\ run_results' = <<>> /\ debug_retrieval' = {}
    /\ req_idx' = 1
    /\ app_pc' = "loop"
    /\ UNCHANGED <<uploaded, contract_text, run_failed, run_evaluated, run_reset>>
    /\ UNCHANGED sessionVars
    /\ UNCHANGED nonAppVars

\* retrieve_clauses(...) for the requirement at req_idx and the query embedding
\* the provider returned
Retrieved(q_emb) ==
    ClauseResults(search(ss_store.rows, q_emb, RunTopK), RunMinScore)

\* one iteration of the loop that completes: retrieve, analyze, append
EvaluateRequirement ==
    /\ app_pc = "loop"
    /\ req_idx <= Len(Standards)
    /\ \E q_emb \in QueryVecs : \E r \in AppResponses :
          LET req == Standards[req_idx]
              out == analyze_requirement(req.name, req.controls,
                                         Retrieved(q_emb), r)
          IN  /\ ~out.raised
              /\ run_results' = Append(run_results, out.verdict)
    /\ debug_retrieval' = IF debug_mode
                          THEN debug_retrieval \cup {Standards[req_idx].name}
                          ELSE debug_retrieval
    /\ run_evaluated' = run_evaluated \cup {req_idx}
    /\ req_idx' = req_idx + 1
    /\ UNCHANGED <<app_pc, uploaded, contract_text, debug_mode, run_failed,
                   run_reset>>
    /\ UNCHANGED sessionVars
    /\ UNCHANGED nonAppVars

\* faulty variant: the loop catches the exception and goes on to the next requirement
AfterRaise_continue(i) == [app_pc |-> "loop", req_idx |-> i + 1]

\* nothing in the loop catches: the exception ends the script run
AfterRaise(i) == [app_pc |-> "idle", req_idx |-> i]

\* one iteration that raises: the query embedding call fails, the
\* claim-generation call fails, or its response holds no JSON object
RequirementRaises ==
    /\ app_pc = "loop"
    /\ req_idx <= Len(Standards)
    /\ \E cause \in {"embedding", "generation", "json"} :
          \/ cause = "embedding"
          \/ /\ cause = "generation"
             /\ \E q_emb \in QueryVecs : Retrieved(q_emb) # <<>>
          \/ /\ cause = "json"
             /\ \E q_emb \in QueryVecs : \E r \in AppResponses :
                   analyze_requirement(Standards[req_idx].name,
                                       Standards[req_idx].controls,
                                       Retrieved(q_emb), r).raised
    /\ run_failed' = req_idx
    /\ app_pc' = AfterRaise(req_idx).app_pc
    /\ req_idx' = AfterRaise(req_idx).req_idx
    /\ UNCHANGED <<uploaded, contract_text, debug_mode, run_results,
                   debug_retrieval, run_evaluated, run_reset>>
    /\ UNCHANGED sessionVars
    /\ UNCHANGED nonAppVars

\* after the loop: st.session_state.results = results;
\* st.session_state.debug_retrieval = debug_retrieval
StoreResults ==
    /\ app_pc = "loop"
    /\ req_idx > Len(Standards)
    /\ ss_results' = [present |-> TRUE, items |-> run_results, doc |-> ss_store.doc]
    /\ ss_debug_retrieval' = [present |-> TRUE, keys |-> debug_retrieval,
                              doc |-> ss_store.doc]
    /\ app_pc' = "chat"
    /\ UNCHANGED <<ss_store, ss_contract_hash, ss_contract_text, ss_chat_messages>>
    /\ UNCHANGED <<uploaded, contract_text, debug_mode, run_results,
                   debug_retrieval, req_idx, run_failed, run_evaluated,
                   run_reset>>
    /\ UNCHANGED nonAppVars

\* no chat question in this run: the script reaches its end
NoQuestion ==
    /\ app_pc = "chat"
    /\ app_pc' = "idle"
    /\ UNCHANGED <<uploaded, contract_text, debug_mode, run_results,
                   debug_retrieval, req_idx, run_failed, run_evaluated,
                   run_reset>>
    /\ UNCHANGED sessionVars
    /\ UNCHANGED nonAppVars

\* if user_q: chat_messages.append({"role": "user", ...})
AskQuestion ==
    /\ app_pc = "chat"
    /\ Len(ss_chat_messages) + 2 <= MaxChatMessages
    /\ ss_chat_messages' = Append(ss_chat_messages,
                                  [role |-> "user", doc |-> ss_store.doc])
    /\ app_pc' = "answer"
    /\ UNCHANGED <<ss_store, ss_contract_hash, ss_contract_text, ss_results,
                   ss_debug_retrieval>>
    /\ UNCHANGED <<uploaded, contract_text, debug_mode, run_results,
                   debug_retrieval, req_idx, run_failed, run_evaluated,
                   run_reset>>
    /\ UNCHANGED nonAppVars

\* answer_question_with_rag returned:
\* chat_messages.append({"role": "assistant", ...})
Answer ==
    /\ app_pc = "answer"
    /\ ss_chat_messages' = Append(ss_chat_messages,
                                  [role |-> "assistant", doc |-> ss_store.doc])
    /\ app_pc' = "idle"
    /\ UNCHANGED <<ss_store, ss_contract_hash, ss_contract_text, ss_results,
                   ss_debug_retrieval>>
    /\ UNCHANGED <<uploaded, contract_text, debug_mode, run_results,
                   debug_retrieval, req_idx, run_failed, run_evaluated,
                   run_reset>>
    /\ UNCHANGED nonAppVars

\* answer_question_with_rag raised: the question stays in the history alone
AnswerRaises ==
    /\ app_pc = "answer"
    /\ app_pc' = "idle"
    /\ UNCHANGED <<uploaded, contract_text, debug_mode, run_results,
                   debug_retrieval, req_idx, run_failed, run_evaluated,
                   run_reset>>
    /\ UNCHANGED sessionVars
    /\ UNCHANGED nonAppVars

NextApp ==
    \/ Rerun
    \/ StopNoUpload
    \/ ExtractText
    \/ CompareHash
    \/ BuildStore
    \/ BuildRaises
    \/ ReuseStore
    \/ SkipChecks
    \/ StartChecks
    \/ EvaluateRequirement
    \/ RequirementRaises
    \/ StoreResults
    \/ NoQuestion
    \/ AskQuestion
    \/ Answer
    \/ AnswerRaises

SpecApp == InitApp /\ [][NextApp]_vars

\* -------------------------------------------------------- scorer claims
EvidenceBranchReturned == an_pc = "returned" /\ retrieved_clauses # <<>>

\* C1: with an empty retrieved_clauses list analyze_requirement returns status
\* Non-Compliant and confidence 20, one control entry per input control in
\* input order with covered=false and no evidence, and makes no model call.
C1_NoEvidenceVerdict ==
    /\ retrieved_clauses = <<>> => llm_calls = 0
    /\ (an_pc = "returned" /\ retrieved_clauses = <<>>) =>
          /\ verdict.status = Non
          /\ verdict.confidence = 20
          /\ verdict.requirement = requirement_name
          /\ Len(verdict.controls) = Len(controls)
          /\ \A i \in 1..Len(controls) :
                verdict.controls[i] =
                    [name |-> controls[i], covered |-> CovFalse, evidence |-> <<>>]

\* the no-evidence branch returned for two different controls
C1_Witness ==
    /\ an_pc = "returned" /\ retrieved_clauses = <<>>
    /\ Len(controls) = 2 /\ controls[1] # controls[2]

\* C2: in the evidence branch the status depends only on how many of the
\* repaired controls are covered: all of them (at least one) -> Fully
\* Compliant, none -> Non-Compliant, otherwise Partially Compliant; the status
\* the model returned plays no part.
C2_StatusFromCoverage ==
    EvidenceBranchReturned =>
        LET n  == Len(verdict.controls)
            cc == Cardinality({i \in 1..n : verdict.controls[i].covered = CovTrue})
        IN  verdict.status = IF n > 0 /\ cc = n THEN Fully
                             ELSE IF cc = 0 THEN Non
                             ELSE Partially

\* two controls, one covered, while the model claimed full compliance
C2_Witness ==
    /\ EvidenceBranchReturned
    /\ resp.status = Fully
    /\ verdict.status = Partially
    /\ Len(verdict.controls) = 2

\* C3: no control of a returned verdict is covered with an empty evidence
\* list; a control the model reported covered without evidence is flipped
\* before the counting, so it is not among the covered controls and the
\* requirement is not Fully Compliant.
C3_NoCoveredWithoutEvidence ==
    an_pc = "returned" =>
        /\ \A i \in 1..Len(verdict.controls) :
              Truthy(verdict.controls[i].covered)
                  => verdict.controls[i].evidence # <<>>
        /\ (retrieved_clauses # <<>> /\ resp.controls_is_list) =>
              /\ covered_controls =
                    Cardinality({i \in 1..Len(resp.controls) :
                                    /\ resp.controls[i].covered = CovTrue
                                    /\ resp.controls[i].evidence # <<>>})
              /\ verdict.status = Fully =>
                    \A i \in 1..Len(resp.controls) :
                        resp.controls[i].evidence # <<>>

\* the model reported one control covered without evidence and one with
C3_Witness ==
    /\ EvidenceBranchReturned
    /\ resp.controls_is_list
    /\ \E i \in 1..Len(resp.controls) : \E j \in 1..Len(resp.controls) :
          /\ resp.controls[i].covered = CovTrue
          /\ resp.controls[i].evidence = <<>>
          /\ resp.controls[j].covered = CovTrue
          /\ resp.controls[j].evidence # <<>>
    /\ verdict.status = Partially

\* C4: the returned confidence is exactly 20 when the controls hold no
\* evidence entry at all, and lies in 30..95 otherwise, whatever confidence
\* the model reported.
C4_ConfidenceRange ==
    an_pc = "returned" =>
        IF EvidenceQuotes(verdict.controls) = 0
        THEN verdict.confidence = 20
        ELSE verdict.confidence \in 30..95

\* quotes exist and the adjusted base fell below the floor
C4_Witness ==
    /\ EvidenceBranchReturned
    /\ evidence_quotes > 0
    /\ base < 30
    /\ verdict.confidence = 30
    /\ resp.confidence = 100

\* C5: coverage_ratio divides by the number of controls in the model's
\* response (the total of the status computation), falling back to the input
\* list's length only when the response has none; so the ratio is within
\* [0,1] and base = 20 + floor(60 * ratio) is within [20,80].
C5_RatioOverModelControls ==
    EvidenceBranchReturned =>
        /\ total_controls = LenOr(verdict.controls, Len(controls))
        /\ covered_controls <= total_controls
        /\ base_ratio \in 20..80

\* ------------------------------------------------------- chunker claims
EmittedFlushes == {i \in 1..Len(flushes) : flushes[i].emitted}

IxSet(q) == {q[i] : i \in 1..Len(q)}

\* C6: every chunk returned by chunk_text has text length >= min_chars; a
\* buffer shorter than min_chars at flush time (overflow or end of block) is
\* discarded: it adds no chunk, and none of its paragraphs is carried into a
\* buffer that is flushed later.
C6_MinLengthAndDiscard ==
    /\ \A i \in 1..Len(chunks) : CharLen(chunks[i].text) >= min_chars
    /\ Len(chunks) = Cardinality(EmittedFlushes)
    /\ \A i \in 1..Len(flushes) : \A j \in 1..Len(flushes) :
          (i < j /\ ~flushes[i].emitted /\ flushes[i].block = flushes[j].block)
              => IxSet(flushes[i].ix) \cap IxSet(flushes[j].ix) = {}

\* a short buffer was discarded at an overflow flush and a later buffer of the
\* same block became a chunk
C6_Witness ==
    /\ ck_pc = "done"
    /\ \E i \in 1..Len(flushes) : \E j \in 1..Len(flushes) :
          /\ i < j
          /\ ~flushes[i].emitted /\ flushes[i].cause = "overflow"
          /\ flushes[j].emitted /\ flushes[j].block = flushes[i].block

\* C7: the ids of the returned chunks are 0, 1, ..., n-1 in output order,
\* global across heading blocks, and a discarded buffer does not advance the
\* counter.
C7_SequentialIds ==
    /\ \A i \in 1..Len(chunks) : chunks[i].id = i - 1
    /\ ck_pc # "call" => chunk_id = Len(chunks)

\* chunks from two different blocks with a discarded buffer before the last
C7_Witness ==
    /\ ck_pc = "done"
    /\ \E i \in 1..Len(flushes) : \E j \in 1..Len(flushes) :
       \E k \in 1..Len(flushes) :
          /\ i < j /\ j < k
          /\ flushes[i].emitted /\ ~flushes[j].emitted /\ flushes[k].emitted
          /\ flushes[i].block # flushes[k].block

\* C8: after a size-overflow flush the next buffer starts with the last
\* overlap_paragraphs paragraphs of the flushed buffer, so two consecutive
\* chunks of one heading block share them (overlap_paragraphs >= 1).
C8_OverlapShared ==
    \A i \in 1..Len(flushes) :
        (/\ overlap_paragraphs >= 1
         /\ i + 1 <= Len(flushes)
         /\ flushes[i].cause = "overflow"
         /\ flushes[i].emitted /\ flushes[i + 1].emitted
         /\ flushes[i + 1].block = flushes[i].block)
        => LET ov == LastK(flushes[i].ix, overlap_paragraphs)
           IN  /\ Len(flushes[i + 1].ix) > Len(ov)
               /\ SubSeq(flushes[i + 1].ix, 1, Len(ov)) = ov

\* ----------------------------------------------------- retriever claims
ChunkIds(q) == [i \in 1..Len(q) |-> q[i].chunk_id]

Descending(q) == \A i \in 1..Len(q) : \A j \in 1..Len(q) :
                    i < j => q[i].score >= q[j].score

\* C9: retrieve_clauses returns exactly the search hits with score >=
\* min_score, in the store's (descending) order: nothing below the threshold,
\* no hit at or above it omitted, at most top_k items, and the empty sequence
\* when every stored vector scores below min_score.
C9_FilteredHits ==
    rc_args.called =>
        LET AtLeast(h) == h.score >= rc_args.min_score
            kept == SelectSeq(rc_hits, AtLeast)
        IN  /\ Len(rc_result) = Len(kept)
            /\ \A i \in 1..Len(kept) :
                  /\ rc_result[i].score = kept[i].score
                  /\ rc_result[i].text = kept[i].text
                  /\ rc_result[i].chunk_id = ChunkIdOf(kept[i])
            /\ \A i \in 1..Len(rc_result) : rc_result[i].score >= rc_args.min_score
            /\ Len(rc_result) <= rc_args.top_k
            /\ Descending(rc_result)
            /\ (\A id \in 0..(Len(store) - 1) :
                    ScoreOf(store, rc_args.q_emb, id) < rc_args.min_score)
                  => rc_result = <<>>

\* two hits, the one exactly at the threshold kept, the one below it dropped
C9_Witness ==
    /\ rc_args.called
    /\ Len(rc_hits) = 2
    /\ Len(rc_result) = 1
    /\ rc_result[1].score = rc_args.min_score

SameQuery == /\ rc_args.called /\ chat_args.called
             /\ rc_args.q_emb = chat_args.q_emb
             /\ rc_args.top_k = chat_args.top_k

C13_MonotoneOffsets ==
    \A i \in 1..Len(chunks) :
        /\ 0 <= chunks[i].start_char
        /\ chunks[i].start_char <= chunks[i].end_char
        /\ \A j \in i..Len(chunks) :
              /\ chunks[i].start_char <= chunks[j].start_char
              /\ chunks[i].end_char <= chunks[j].end_char

\* chunk_text returned two chunks of one block followed by a chunk of a
\* later block
C13_Witness ==
    /\ ck_pc = "done"
    /\ \E a, b, c \in 1..Len(flushes) :
          /\ a < b /\ b < c
          /\ flushes[a].emitted /\ flushes[b].emitted /\ flushes[c].emitted
          /\ flushes[a].block = flushes[b].block
          /\ flushes[b].block < flushes[c].block

\* C14 (as stated): every chunk's text is at most max_chars characters long,
\* also for a paragraph longer than max_chars and for text without blank
\* lines.
C14_SizeBounded ==
    \A i \in 1..Len(chunks) : CharLen(chunks[i].text) <= max_chars

\* C18: when HEADING_RE matches, the first block starts at the first heading,
\* no block or chunk lies before it and the blocks hold exactly the text from
\* that heading on; only a text without a heading is one block with a null
\* heading.
NonSpace(s) == LET Keep(t) == ~IsSpace(t) IN SelectSeq(s, Keep)

RECURSIVE BlockTokens(_)
BlockTokens(bs) ==
    IF bs = <<>> THEN <<>> ELSE NonSpace(Head(bs).text) \o BlockTokens(Tail(bs))

FirstHeading(text) ==
    IF \E i \in 1..Len(text) : HeadingAt(text, i)
    THEN CHOOSE i \in 1..Len(text) :
            HeadingAt(text, i) /\ \A j \in 1..(i - 1) : ~HeadingAt(text, j)
    ELSE 0

C18_BlocksFromFirstHeading ==
    LET text == Strip(ReplaceCR(raw))
        h    == FirstHeading(text)
    IN  (ck_pc \in {"block", "para", "done"} /\ text # <<>>) =>
           IF h = 0
           THEN blocks = << [heading |-> NoHeading, text |-> text,
                             start |-> 0, end |-> CharLen(text)] >>
           ELSE /\ blocks # <<>>
                /\ blocks[1].start = Off(text, h)
                /\ \A b \in 1..Len(blocks) :
                      /\ blocks[b].heading # NoHeading
                      /\ blocks[b].start >= Off(text, h)
                /\ BlockTokens(blocks) = NonSpace(SubSeq(text, h, Len(text)))
                /\ \A i \in 1..Len(chunks) :
                      /\ chunks[i].section_heading # NoHeading
                      /\ chunks[i].start_char >= Off(text, h)

\* a text with words before its first heading was chunked
C18_Witness ==
    LET text == Strip(ReplaceCR(raw))
    IN  /\ ck_pc = "done"
        /\ FirstHeading(text) > 1
        /\ chunks # <<>>

\* ----------------------------------------------------------- section tags
SectionStarts(s) == {i \in 1..(Len(s) + 1) : SectionAt(s, i).matched}
ExhibitStarts(s) == {i \in 1..(Len(s) + 1) : ExhibitAt(s, i).matched}
PlainNumStarts(s) == {i \in 1..(Len(s) + 1) : PlainNumAt(s, i).matched}

Leftmost(S) == CHOOSE i \in S : \A j \in S : i <= j

\* C12: if "Section N[.N...]" occurs anywhere in the text the label is
\* "Section <number>" of its first occurrence, wherever Exhibit references or
\* dotted line headings stand; otherwise, if an Exhibit reference occurs, the
\* label is "Exhibit <LETTER[digits]>" in upper case; otherwise, if a line
\* begins with a dotted number, the label is "Section <N.N>"; otherwise there
\* is no label.
C12_LabelPriority ==
    tag_pc = "done" =>
        LET s == tag_text
        IN  IF SectionStarts(s) # {}
            THEN tag_label =
                   [found |-> TRUE,
                    label |-> SectionPrefix
                              \o SectionAt(s, Leftmost(SectionStarts(s))).group]
            ELSE IF ExhibitStarts(s) # {}
            THEN tag_label =
                   [found |-> TRUE,
                    label |-> ExhibitPrefix
                              \o UpperAll(ExhibitAt(s, Leftmost(ExhibitStarts(s))).group)]
            ELSE IF PlainNumStarts(s) # {}
            THEN tag_label =
                   [found |-> TRUE,
                    label |-> SectionPrefix
                              \o PlainNumAt(s, Leftmost(PlainNumStarts(s))).group]
            ELSE tag_label = NoLabel

\* a text was labelled whose Exhibit reference stands before its first
\* "Section N"
C12_Witness ==
    /\ tag_pc = "done"
    /\ SectionStarts(tag_text) # {}
    /\ \E i \in ExhibitStarts(tag_text) : i < Leftmost(SectionStarts(tag_text))
    /\ tag_label.found

\* ------------------------------------------------------------ index build
\* C16: in a store filled by one add of all chunks in chunker order, the id of
\* every row equals the chunk_id in its metadata, the ids are 0..n-1 without
\* gaps, and the chunk_id of every retrieved evidence item is the id of the
\* chunk whose text the item carries.
C16_IdsAreChunkIds ==
    /\ ix_pc \in {"indexed", "retrieved"} =>
          /\ Len(store) = Len(ix_chunks)
          /\ \A i \in 1..Len(store) :
                /\ store[i].meta.present
                /\ store[i].meta.chunk_id = i - 1
                /\ ix_chunks[i].id = i - 1
                /\ store[i].text = ix_chunks[i].text
    /\ ix_pc = "retrieved" =>
          \A k \in 1..Len(rc_result) :
              /\ rc_result[k].chunk_id = rc_hits[k].doc_id
              /\ rc_result[k].chunk_id \in 0..(Len(ix_chunks) - 1)
              /\ ix_chunks[rc_result[k].chunk_id + 1].id = rc_result[k].chunk_id
              /\ ix_chunks[rc_result[k].chunk_id + 1].text = rc_result[k].text

\* three chunks were indexed and the best evidence retrieved is not the first
\* chunk
C16_Witness ==
    /\ ix_pc = "retrieved"
    /\ Len(ix_chunks) >= 3
    /\ rc_result # <<>>
    /\ rc_result[1].chunk_id > 0
    /\ ix_chunks[rc_result[1].chunk_id + 1].text # ix_chunks[1].text

\* -------------------------------------------------------- batch of checks
AllRequirements == 1..Len(Standards)

\* C11 (as stated): when the evaluation of one requirement fails, only that
\* requirement is aborted and the remaining requirements are still evaluated.
C11_OnlyFailedAborted ==
    (app_pc = "idle" /\ run_failed # 0) =>
        (AllRequirements \ {run_failed}) \subseteq run_evaluated

\* C11 (amended): a failure in the evaluation of a requirement ends the script
\* run there: the requirements before it were evaluated, it and the later ones
\* are not, the session's results and debug retrieval stay as they were before
\* the batch, and results are stored only by a batch in which every
\* requirement was evaluated.
C11_FailFast ==
    /\ [](run_failed # 0 =>
             /\ app_pc = "idle"
             /\ run_evaluated = 1..(run_failed - 1))
    /\ [][(run_failed = 0 /\ run_failed' # 0) =>
             /\ app_pc' = "idle"
             /\ UNCHANGED sessionVars]_vars
    /\ [][(ss_results' # ss_results /\ ss_results'.present) =>
             /\ run_failed = 0
             /\ run_evaluated = AllRequirements
             /\ Len(ss_results'.items) = Len(Standards)]_vars

\* the second requirement failed in a batch run over a session that holds the
\* results of an earlier batch
C11_Witness ==
    /\ app_pc = "idle"
    /\ run_failed = 2
    /\ run_evaluated = {1}
    /\ ss_results.present

\* ------------------------------------------------------- session and cache
\* C15: the session's store, results, debug retrieval and chat history always
\* stem from the text whose hash is contract_hash, and there are no results,
\* debug data or chat history without a store; a run whose text has the
\* session's hash leaves a cached store as it is; a run whose text has another
\* hash takes that hash and drops store, results, debug retrieval and chat
\* history in one step, before any store is built.
C15_CacheKeyedByHash ==
    /\ [](/\ ss_store.present => ContentHash(ss_store.doc) = ss_contract_hash
          /\ ss_results.present => ContentHash(ss_results.doc) = ss_contract_hash
          /\ ss_debug_retrieval.present =>
                ContentHash(ss_debug_retrieval.doc) = ss_contract_hash
          /\ \A i \in 1..Len(ss_chat_messages) :
                ContentHash(ss_chat_messages[i].doc) = ss_contract_hash
          /\ ~ss_store.present =>
                /\ ss_results = NoResults
                /\ ss_debug_retrieval = NoDebugRetrieval
                /\ ss_chat_messages = <<>>)
    /\ [][(/\ app_pc \in {"hash", "index"}
           /\ ContentHash(contract_text) = ss_contract_hash
           /\ ss_store.present) => ss_store' = ss_store]_vars
    /\ [][(/\ app_pc = "hash"
           /\ ContentHash(contract_text) # ss_contract_hash) =>
             /\ ss_contract_hash' = ContentHash(contract_text)
             /\ ss_store' = NoStore
             /\ ss_results' = NoResults
             /\ ss_debug_retrieval' = NoDebugRetrieval
             /\ ss_chat_messages' = <<>>]_vars

\* a run dropped a cached store for a new document, built the new store and
\* stored results for it
C15_Witness ==
    /\ run_reset
    /\ ss_store.present
    /\ ss_results.present
    /\ ss_store.doc = contract_text

\* C17 (as stated): every text that passes the extraction gate yields at least
\* one chunk under the pipeline's parameters, so the index build never works
\* on an empty chunk list.
C17_GatedTextHasChunks ==
    app_pc = "index" => PipelineChunks(contract_text) # <<>>

====
